---- MODULE Spec2Model ----
(***************************************************************************)
(* A model of scripts/combine_csvs.py (the merge-and-deduplicate engine)   *)
(* and scripts/remove_unnamed_columns.py (the column stripper).            *)
(*                                                                         *)
(* Text is modelled at character level: a Python str is a sequence of      *)
(* one-character strings, a CSV row is a sequence of such cells, and a     *)
(* written CSV file is a sequence of lines (the cells of the model never   *)
(* contain CR or LF, so a record is one line). A cell is always a str:     *)
(* csv.reader yields no None.                                              *)
(***************************************************************************)
EXTENDS Integers, Sequences, FiniteSets, TLC

VARIABLES
    run,              \* 1: the merge of the input directory; 2: the merge of run 1's output
    pc,               \* position inside combine_csvs / the pure-function harnesses
    entry,            \* name -> what the directory holds under that name
    files,            \* combine_csvs: files
    fi,               \* index into files of the file the per-file loop is at
    canonical_header, \* combine_csvs: canonical_header
    key_idx,          \* combine_csvs: key_idx
    use_key,          \* combine_csvs: use_key
    src_header,       \* combine_csvs: src_header of the open file
    idx_map,          \* combine_csvs: idx_map of the open file
    reader,           \* rows the open file's csv.reader will still yield (run 2)
    seen_keys,        \* combine_csvs: seen_keys
    seen_full_rows,   \* combine_csvs: seen_full_rows
    totals,           \* combine_csvs: totals
    outDir,           \* does os.path.dirname(output_csv) exist
    outFile,          \* output_csv: NoFile, or the lines written to it
    fs0,              \* <<outDir, outFile>> when combine_csvs was called
    prevOut,          \* the lines of run 1's output (the sole input of run 2)
    history,          \* one record per data row read in this run, in reading order
    arg,              \* argument of the pure function called on its own
    ret               \* its result

mergeVars == <<run, pc, entry, files, fi, canonical_header, key_idx, use_key,
               src_header, idx_map, reader, seen_keys, seen_full_rows, totals,
               outDir, outFile, fs0, prevOut, history>>
mergeVarsButPc == <<run, entry, files, fi, canonical_header, key_idx, use_key, src_header,
                    idx_map, reader, seen_keys, seen_full_rows, totals, outDir, outFile,
                    fs0, prevOut, history>>
vars == <<mergeVars, arg, ret>>

(***************************************************************************)
(* Bounds of the model.                                                    *)
(***************************************************************************)
MaxFiles == 2     \* names in the input directory
MaxRows == 2      \* data rows read in run 1
MaxStr == 6       \* characters of a cell given to _normalize_for_key
MaxHdr == 3       \* columns of a header given to build_index_map
MaxStripCols == 3 \* columns of a file given to remove_unnamed_columns
MaxStripRows == 2 \* data rows of a file given to remove_unnamed_columns

(***************************************************************************)
(* Python values and str methods.                                          *)
(***************************************************************************)
\* Optional[int]: an index of the model is >= 1, and 0 stands for None
None == 0
\* a path that does not exist
NoFile == [exists |-> FALSE, lines |-> <<>>]
\* an existing file of the given lines
File(lines) == [exists |-> TRUE, lines |-> lines]
EmptyStr == <<>>

Digits == {"0", "1", "2", "3", "4", "5", "6", "7", "8", "9"}
Whitespace == {" ", "\t"}
UpperCase == <<"A", "B", "C", "D", "E", "F", "G", "H", "I", "J", "K", "L", "M",
               "N", "O", "P", "Q", "R", "S", "T", "U", "V", "W", "X", "Y", "Z">>
LowerCase == <<"a", "b", "c", "d", "e", "f", "g", "h", "i", "j", "k", "l", "m",
               "n", "o", "p", "q", "r", "s", "t", "u", "v", "w", "x", "y", "z">>

Range(s) == {s[i] : i \in DOMAIN s}

\* str.strip(): drop leading and trailing whitespace
RECURSIVE lstrip(_)
lstrip(s) == IF s # <<>> /\ Head(s) \in Whitespace THEN lstrip(Tail(s)) ELSE s

RECURSIVE rstrip(_)
rstrip(s) ==
    IF s # <<>> /\ s[Len(s)] \in Whitespace THEN rstrip(SubSeq(s, 1, Len(s) - 1)) ELSE s

strip(s) == rstrip(lstrip(s))

\* str.lower()
lowerChar(c) ==
    IF \E i \in DOMAIN UpperCase : UpperCase[i] = c
    THEN LowerCase[CHOOSE i \in DOMAIN UpperCase : UpperCase[i] = c]
    ELSE c

lower(s) == [i \in DOMAIN s |-> lowerChar(s[i])]

\* str.isdigit(): non-empty and every character a digit
isdigit(s) == s # <<>> /\ \A i \in DOMAIN s : s[i] \in Digits

\* s.replace('.', '', 1): s without its first '.'
replaceDotOnce(s) ==
    IF \E i \in DOMAIN s : s[i] = "."
    THEN LET p == CHOOSE i \in DOMAIN s : s[i] = "." /\ \A j \in 1..(i - 1) : s[j] # "."
         IN  SubSeq(s, 1, p - 1) \o SubSeq(s, p + 1, Len(s))
    ELSE s

\* s.startswith(prefix)
startswith(s, prefix) == Len(s) >= Len(prefix) /\ SubSeq(s, 1, Len(prefix)) = prefix

digitVal(c) == CHOOSE n \in 0..9 : <<"0", "1", "2", "3", "4", "5", "6", "7", "8", "9">>[n + 1] = c
digitChar(n) == <<"0", "1", "2", "3", "4", "5", "6", "7", "8", "9">>[n + 1]

\* the value of a run of digits (0 for the empty run)
RECURSIVE natOf(_)
natOf(ds) == IF ds = <<>> THEN 0 ELSE 10 * natOf(SubSeq(ds, 1, Len(ds) - 1)) + digitVal(ds[Len(ds)])

\* str(n) for an int n >= 0
RECURSIVE strOfNat(_)
strOfNat(n) == IF n < 10 THEN <<digitChar(n)>> ELSE Append(strOfNat(n \div 10), digitChar(n % 10))

\* float(s) for s made of digits and at most one '.': its integer and fraction digits.
\* The cells of the model are short enough for the double to be exact.
floatOf(s) ==
    IF \E i \in DOMAIN s : s[i] = "."
    THEN LET p == CHOOSE i \in DOMAIN s : s[i] = "."
         IN  [int |-> SubSeq(s, 1, p - 1), frac |-> SubSeq(s, p + 1, Len(s))]
    ELSE [int |-> s, frac |-> <<>>]

\* float.is_integer()
is_integer(f) == \A i \in DOMAIN f.frac : f.frac[i] = "0"

(***************************************************************************)
(* _normalize_for_key                                                      *)
(***************************************************************************)
NormalizeNoStrip(val) ==
    LET s == val
    IN  IF isdigit(replaceDotOnce(s)) /\ is_integer(floatOf(s))
        THEN strOfNat(natOf(floatOf(s).int))
        ELSE lower(s)

_normalize_for_key(val) ==
    LET s == strip(val)
    IN  IF isdigit(replaceDotOnce(s)) /\ is_integer(floatOf(s))
        THEN strOfNat(natOf(floatOf(s).int))
        ELSE lower(s)

(***************************************************************************)
(* The csv module, as far as combine_csvs uses it.                         *)
(***************************************************************************)
COMMA == ","
SEMI == ";"
QUOTE == "\""
CR == "\r"
LF == "\n"
NUL == "\\0"

RECURSIVE join(_, _)
join(sep, cells) ==
    IF cells = <<>> THEN <<>>
    ELSE IF Len(cells) = 1 THEN cells[1]
    ELSE cells[1] \o <<sep>> \o join(sep, Tail(cells))

RECURSIVE doubleQuotes(_)
doubleQuotes(s) ==
    IF s = <<>> THEN <<>>
    ELSE IF Head(s) = QUOTE THEN <<QUOTE, QUOTE>> \o doubleQuotes(Tail(s))
    ELSE <<Head(s)>> \o doubleQuotes(Tail(s))

\* csv.writer(out_f) is the excel dialect: ',' and QUOTE_MINIMAL
writeField(cell) ==
    IF \E i \in DOMAIN cell : cell[i] \in {COMMA, QUOTE, CR, LF}
    THEN <<QUOTE>> \o doubleQuotes(cell) \o <<QUOTE>>
    ELSE cell

\* writer.writerow(row): the line written, without its terminator. A row of one
\* empty cell is written quoted, to tell it from an empty line.
writerow(row) ==
    IF row = <<EmptyStr>> THEN <<QUOTE, QUOTE>>
    ELSE join(COMMA, [i \in DOMAIN row |-> writeField(row[i])])

\* csv.reader's state machine on one line, for a dialect with the given
\* delimiter, quotechar '"' and doublequote
RECURSIVE parseFrom(_, _, _, _, _, _)
parseFrom(line, d, i, fields, cur, st) ==
    IF i > Len(line)
    THEN IF st = "START_RECORD" THEN <<>> ELSE Append(fields, cur)
    ELSE LET c == line[i] IN
         CASE st \in {"START_RECORD", "START_FIELD"} ->
                IF c = QUOTE THEN parseFrom(line, d, i + 1, fields, cur, "IN_QUOTED_FIELD")
                ELSE IF c = d THEN parseFrom(line, d, i + 1, Append(fields, cur), <<>>, "START_FIELD")
                ELSE parseFrom(line, d, i + 1, fields, Append(cur, c), "IN_FIELD")
           [] st = "IN_FIELD" ->
                IF c = d THEN parseFrom(line, d, i + 1, Append(fields, cur), <<>>, "START_FIELD")
                ELSE parseFrom(line, d, i + 1, fields, Append(cur, c), "IN_FIELD")
           [] st = "IN_QUOTED_FIELD" ->
                IF c = QUOTE THEN parseFrom(line, d, i + 1, fields, cur, "QUOTE_IN_QUOTED_FIELD")
                ELSE parseFrom(line, d, i + 1, fields, Append(cur, c), "IN_QUOTED_FIELD")
           [] st = "QUOTE_IN_QUOTED_FIELD" ->
                IF c = QUOTE THEN parseFrom(line, d, i + 1, fields, Append(cur, c), "IN_QUOTED_FIELD")
                ELSE IF c = d THEN parseFrom(line, d, i + 1, Append(fields, cur), <<>>, "START_FIELD")
                ELSE parseFrom(line, d, i + 1, fields, Append(cur, c), "IN_FIELD")

parseLine(line, d) == parseFrom(line, d, 1, <<>>, <<>>, "START_RECORD")

count(c, line) == Cardinality({i \in DOMAIN line : line[i] = c})

\* csv.Sniffer's delimiter-frequency rule: a character is a candidate when
\* every line of the sample holds it the same, non-zero, number of times
consistent(d, lines) ==
    /\ lines # <<>>
    /\ count(d, lines[1]) > 0
    /\ \A i \in DOMAIN lines : count(d, lines[i]) = count(d, lines[1])

\* sniff_dialect: the sniffed delimiter; ',' is the Sniffer's first preference
\* and also csv.excel, the fallback on csv.Error
sniff_dialect(lines) ==
    IF consistent(COMMA, lines) THEN COMMA
    ELSE IF consistent(SEMI, lines) THEN SEMI
    ELSE COMMA

(***************************************************************************)
(* build_index_map, row_to_dst, hash_row. Python's 0-based index i is the  *)
(* model's i + 1.                                                          *)
(***************************************************************************)
\* {name: i for i, name in enumerate(header)}: a later column overwrites an
\* earlier one of the same name
idx_by_name(header) ==
    [name \in Range(header) |->
        CHOOSE i \in DOMAIN header :
            header[i] = name /\ \A j \in DOMAIN header : header[j] = name => j <= i]

\* dict.get(name)
get(d, name) == IF name \in DOMAIN d THEN d[name] ELSE None

FirstIndexMap(src_h, dst_h) ==
    [k \in DOMAIN dst_h |->
        IF \E i \in DOMAIN src_h : src_h[i] = dst_h[k]
        THEN CHOOSE i \in DOMAIN src_h :
                 src_h[i] = dst_h[k] /\ \A j \in DOMAIN src_h : src_h[j] = dst_h[k] => i <= j
        ELSE None]

build_index_map(src_h, dst_h) == [k \in DOMAIN dst_h |-> get(idx_by_name(src_h), dst_h[k])]

RowToDstNormalized(row, imap) ==
    [k \in DOMAIN imap |->
        IF imap[k] = None THEN EmptyStr
        ELSE IF imap[k] <= Len(row) THEN _normalize_for_key(row[imap[k]])
        ELSE EmptyStr]

row_to_dst(row, imap) ==
    [k \in DOMAIN imap |->
        IF imap[k] = None THEN EmptyStr
        ELSE IF imap[k] <= Len(row) THEN row[imap[k]]
        ELSE EmptyStr]

\* sha256 of the cells joined by NUL; the digest is taken to be collision-free
\* and is represented by the bytes it digests
hash_row(cells) == join(NUL, cells)

(***************************************************************************)
(* The inputs of the merge.                                                *)
(***************************************************************************)
GAME_ID == <<"g", "a", "m", "e", "_", "i", "d">>
PLAY_ID == <<"p", "l", "a", "y", "_", "i", "d">>
KEY_COLUMNS == <<GAME_ID, PLAY_ID>>
AB == <<"a", ";", "b">>

\* next(reader) on a file with no line at all raises StopIteration: NoLine. On any
\* other file it yields the first line's row: Line(row).
NoLine == <<>>
Line(row) == <<row>>

\* the first line of an input file, as its reader parses it; <<>> is a blank line
Headers == {<<>>, <<GAME_ID, PLAY_ID>>, <<AB>>, <<AB, GAME_ID>>}

SeqsUpTo(S, n) == UNION {[1..k -> S] : k \in 0..n}

\* the data rows an input file can hold, as its reader parses them: a blank line,
\* rows shorter and longer than the headers, cells that differ only in how a
\* number is written, a cell that holds the writer's delimiter
Rows ==
    {<<>>,
     <<<<"7", ".", "0">>>>,
     <<<<"1", ";", "2">>>>,
     <<<<"x", ",", "y">>>>,
     <<<<"7">>, <<"1", ";", "2">>>>,
     <<<<"7", ".", "0">>, <<"1", ";", "2">>>>}

\* what the input directory can hold under a name: a CSV file, a directory whose
\* name ends in .csv, a file of another extension
Entries ==
    {[isfile |-> TRUE, csv |-> TRUE, hdr |-> h] : h \in {Line(r) : r \in Headers} \cup {NoLine}}
    \cup {[isfile |-> FALSE, csv |-> TRUE, hdr |-> NoLine],
          [isfile |-> TRUE, csv |-> FALSE, hdr |-> NoLine]}

PermSeqs(S) ==
    {p \in [1..Cardinality(S) -> S] : \A i, j \in DOMAIN p : p[i] = p[j] => i = j}

\* a file written by csv.writer: its lines, read back through sniff_dialect
\* and csv.reader
TextFile(lines) == [isfile |-> TRUE, csv |-> TRUE, text |-> lines]

\* next(reader) on a freshly opened file: its header, or NoLine
first_row(e) ==
    IF "text" \in DOMAIN e
    THEN IF e.text = <<>> THEN NoLine ELSE Line(parseLine(e.text[1], sniff_dialect(e.text)))
    ELSE e.hdr

\* the rows a reader of a written file yields after the header
rest_rows(e) ==
    IF "text" \in DOMAIN e
    THEN [i \in 1..(Len(e.text) - 1) |-> parseLine(e.text[i + 1], sniff_dialect(e.text))]
    ELSE <<>>

(***************************************************************************)
(* list_csvs and read_header. A name is a number: its rank among the       *)
(* directory's names in str order.                                         *)
(***************************************************************************)
sorted(names) == SortSeq(names, LAMBDA a, b : a < b)

IsCsvFile(n) == entry[n].isfile /\ entry[n].csv

ListCsvsUnsorted(listdir) == SelectSeq(listdir, IsCsvFile)

\* listdir is os.listdir(directory): the directory's names, in any order
list_csvs(listdir) == SelectSeq(sorted(listdir), IsCsvFile)

read_header(n) == IF first_row(entry[n]) = NoLine THEN <<>> ELSE first_row(entry[n])[1]

(***************************************************************************)
(* combine_csvs                                                            *)
(***************************************************************************)
ZeroTotals == [files |-> 0, rows_in |-> 0, duplicates_skipped |-> 0, rows_out |-> 0]

\* tuple(_normalize_for_key(out_row[i]) for i in key_idx if i is not None)
k_tuple(out_row, kidx) ==
    LET some == SelectSeq(kidx, LAMBDA i : i # None)
    IN  [j \in DOMAIN some |-> _normalize_for_key(out_row[some[j]])]

\* the key a row is deduplicated by
dedup_key(out_row, ukey, kidx) == IF ukey THEN k_tuple(out_row, kidx) ELSE hash_row(out_row)

\* files = list_csvs(input_dir); SystemExit when there is none
ListCsvs ==
    /\ pc = "list"
    /\ \E listdir \in PermSeqs(DOMAIN entry) :
           /\ files' = list_csvs(listdir)
           /\ pc' = IF list_csvs(listdir) = <<>> THEN "fatal_no_csv" ELSE "select"
    /\ UNCHANGED <<run, entry, fi, canonical_header, key_idx, use_key, src_header,
                   idx_map, reader, seen_keys, seen_full_rows, totals, outDir, outFile,
                   fs0, prevOut, history, arg, ret>>

\* the first non-empty header in discovery order
first_header(fs) ==
    IF \E i \in DOMAIN fs : read_header(fs[i]) # <<>>
    THEN read_header(fs[CHOOSE i \in DOMAIN fs :
                            /\ read_header(fs[i]) # <<>>
                            /\ \A j \in 1..(i - 1) : read_header(fs[j]) = <<>>])
    ELSE <<>>

SelectHeaderAfterOpen ==
    /\ pc = "select"
    /\ canonical_header' = first_header(files)
    /\ outDir' = TRUE
    /\ outFile' = File(<<>>)
    /\ pc' = IF first_header(files) = <<>> THEN "fatal_all_empty" ELSE "open_out"
    /\ UNCHANGED <<run, entry, files, fi, key_idx, use_key, src_header, idx_map,
                   reader, seen_keys, seen_full_rows, totals, fs0, prevOut, history,
                   arg, ret>>

\* the canonical header is chosen; SystemExit when every file is empty
SelectHeader ==
    /\ pc = "select"
    /\ canonical_header' = first_header(files)
    /\ pc' = IF first_header(files) = <<>> THEN "fatal_all_empty" ELSE "open_out"
    /\ UNCHANGED <<run, entry, files, fi, key_idx, use_key, src_header, idx_map,
                   reader, seen_keys, seen_full_rows, totals, outDir, outFile, fs0,
                   prevOut, history, arg, ret>>

\* os.makedirs, the empty seen sets and totals, open(output_csv, 'w'), the header
\* row, key_idx and use_key
OpenOutput ==
    /\ pc = "open_out"
    /\ outDir' = TRUE
    /\ outFile' = File(<<writerow(canonical_header)>>)
    /\ seen_full_rows' = {}
    /\ seen_keys' = {}
    /\ totals' = ZeroTotals
    /\ key_idx' = [k \in DOMAIN KEY_COLUMNS |-> get(idx_by_name(canonical_header), KEY_COLUMNS[k])]
    /\ use_key' = \A k \in DOMAIN KEY_COLUMNS :
                      get(idx_by_name(canonical_header), KEY_COLUMNS[k]) # None
    /\ fi' = 1
    /\ pc' = "next_file"
    /\ UNCHANGED <<run, entry, files, canonical_header, src_header, idx_map,
                   reader, fs0, prevOut, history, arg, ret>>

\* for path in files: a file with no line is left by `continue`
SkipEmptyFile ==
    /\ pc = "next_file"
    /\ fi <= Len(files)
    /\ first_row(entry[files[fi]]) = NoLine
    /\ totals' = [totals EXCEPT !.files = @ + 1]
    /\ fi' = fi + 1
    /\ UNCHANGED <<run, pc, entry, files, canonical_header, key_idx, use_key,
                   src_header, idx_map, reader, seen_keys, seen_full_rows, outDir,
                   outFile, fs0, prevOut, history, arg, ret>>

\* for path in files: the file is opened, its header read and its idx_map built
OpenFile ==
    /\ pc = "next_file"
    /\ fi <= Len(files)
    /\ first_row(entry[files[fi]]) # NoLine
    /\ totals' = [totals EXCEPT !.files = @ + 1]
    /\ src_header' = first_row(entry[files[fi]])[1]
    /\ idx_map' = build_index_map(first_row(entry[files[fi]])[1], canonical_header)
    /\ reader' = rest_rows(entry[files[fi]])
    /\ pc' = "rows"
    /\ UNCHANGED <<run, entry, files, fi, canonical_header, key_idx, use_key,
                   seen_keys, seen_full_rows, outDir, outFile, fs0, prevOut, history,
                   arg, ret>>

\* `key in seen`
is_duplicate(key, seen) == key \in seen

NeverRegister(seen, key, is_dup) == seen

\* seen.add(key), for a row that is no duplicate
register(seen, key, is_dup) == IF is_dup THEN seen ELSE seen \cup {key}

CountOnlyWritten(t, is_dup) ==
    [t EXCEPT !.rows_in = @ + 1, !.rows_out = @ + (IF is_dup THEN 0 ELSE 1)]

\* the counters after one data row
count_row(t, is_dup) ==
    [t EXCEPT !.rows_in = @ + 1,
              !.duplicates_skipped = @ + (IF is_dup THEN 1 ELSE 0),
              !.rows_out = @ + (IF is_dup THEN 0 ELSE 1)]

WriteFirst(f, out_row) == File(<<f.lines[1], writerow(out_row)>> \o Tail(f.lines))

\* writer.writerow(out_row) on the open output
write_out(f, out_row) == File(Append(f.lines, writerow(out_row)))

\* the rows the open file's reader can yield next: any row in run 1 (the input
\* files are read as they come), the parsed lines of run 1's output in run 2
NextRows ==
    IF run = 1
    THEN IF Len(history) < MaxRows THEN Rows ELSE {}
    ELSE IF reader # <<>> THEN {Head(reader)} ELSE {}

\* the body of `for row in reader`
ProcessRow(row) ==
    /\ pc = "rows"
    /\ LET out_row == row_to_dst(row, idx_map)
           key == dedup_key(out_row, use_key, key_idx)
           is_dup == is_duplicate(key, IF use_key THEN seen_keys ELSE seen_full_rows)
       IN  /\ seen_keys' = IF use_key THEN register(seen_keys, key, is_dup) ELSE seen_keys
           /\ seen_full_rows' =
                  IF use_key THEN seen_full_rows ELSE register(seen_full_rows, key, is_dup)
           /\ totals' = count_row(totals, is_dup)
           /\ outFile' = IF is_dup THEN outFile ELSE write_out(outFile, out_row)
           /\ history' = Append(history, [file |-> files[fi], src |-> src_header, row |-> row,
                                          out |-> out_row, key |-> key, dup |-> is_dup])
    /\ reader' = IF reader = <<>> THEN reader ELSE Tail(reader)
    /\ UNCHANGED <<run, pc, entry, files, fi, canonical_header, key_idx, use_key,
                   src_header, idx_map, outDir, fs0, prevOut, arg, ret>>

\* the reader is exhausted: on to the next file
EndOfFile ==
    /\ pc = "rows"
    /\ run = 1 \/ reader = <<>>
    /\ fi' = fi + 1
    /\ pc' = "next_file"
    /\ UNCHANGED <<run, entry, files, canonical_header, key_idx, use_key,
                   src_header, idx_map, reader, seen_keys, seen_full_rows, totals,
                   outDir, outFile, fs0, prevOut, history, arg, ret>>

\* return totals
Return ==
    /\ pc = "next_file"
    /\ fi > Len(files)
    /\ pc' = "done"
    /\ UNCHANGED <<run, entry, files, fi, canonical_header, key_idx, use_key,
                   src_header, idx_map, reader, seen_keys, seen_full_rows, totals,
                   outDir, outFile, fs0, prevOut, history, arg, ret>>

\* combine_csvs is called again, on a directory that holds run 1's output alone,
\* for an output path in a fresh directory
StartSecondRun ==
    /\ pc = "done"
    /\ run = 1
    /\ run' = 2
    /\ prevOut' = outFile
    /\ entry' = [n \in {1} |-> TextFile(outFile.lines)]
    /\ outDir' = FALSE
    /\ outFile' = NoFile
    /\ fs0' = <<FALSE, NoFile>>
    /\ history' = <<>>
    /\ files' = <<>>
    /\ fi' = 0
    /\ canonical_header' = <<>>
    /\ key_idx' = <<>>
    /\ use_key' = FALSE
    /\ src_header' = <<>>
    /\ idx_map' = <<>>
    /\ reader' = <<>>
    /\ seen_keys' = {}
    /\ seen_full_rows' = {}
    /\ totals' = ZeroTotals
    /\ pc' = "list"
    /\ UNCHANGED <<arg, ret>>

NoCall == arg = <<>> /\ ret = <<>>

Init ==
    /\ run = 1
    /\ pc = "list"
    /\ \E n \in 0..MaxFiles : entry \in [1..n -> Entries]
    /\ files = <<>>
    /\ fi = 0
    /\ canonical_header = <<>>
    /\ key_idx = <<>>
    /\ use_key = FALSE
    /\ src_header = <<>>
    /\ idx_map = <<>>
    /\ reader = <<>>
    /\ seen_keys = {}
    /\ seen_full_rows = {}
    /\ totals = ZeroTotals
    /\ outDir = FALSE
    /\ outFile = NoFile
    /\ fs0 = <<outDir, outFile>>
    /\ prevOut = NoFile
    /\ history = <<>>
    /\ NoCall

Next ==
    \/ ListCsvs
    \/ SelectHeader
    \/ OpenOutput
    \/ SkipEmptyFile
    \/ OpenFile
    \/ \E row \in NextRows : ProcessRow(row)
    \/ EndOfFile
    \/ Return
    \/ StartSecondRun

Spec == Init /\ [][Next]_vars

(***************************************************************************)
(* Properties of the merge, checked under Spec.                            *)
(***************************************************************************)
Fatal == pc \in {"fatal_no_csv", "fatal_all_empty"}

DupCount == Cardinality({i \in DOMAIN history : history[i].dup})

\* the rows handed to writer.writerow, in reading order
Survivors == SelectSeq(history, LAMBDA h : ~h.dup)

\* C1: rows_in == rows_out + duplicates_skipped, after every data row and at the
\* end of the run, in semantic-key mode and in full-row-hash mode; rows_in is the
\* number of data rows read.
C1_RowsBalance ==
    /\ totals.rows_in = totals.rows_out + totals.duplicates_skipped
    /\ totals.rows_in = Len(history)

C1_Witness ==
    /\ pc = "done"
    /\ totals.duplicates_skipped > 0
    /\ totals.rows_out > 0

\* C2: a row is skipped exactly when an earlier row of the run, of the same file or
\* of an earlier one, had an equal dedup key; every skipped row is counted in
\* duplicates_skipped; no two written rows have equal dedup keys.
C2_FirstOccurrenceWins ==
    /\ \A i \in DOMAIN history :
           history[i].dup <=> \E j \in 1..(i - 1) : history[j].key = history[i].key
    /\ totals.duplicates_skipped = DupCount
    /\ \A i, j \in DOMAIN Survivors : Survivors[i].key = Survivors[j].key => i = j
    /\ outFile.exists => Len(outFile.lines) = 1 + Len(Survivors)

C2_Witness ==
    /\ pc = "done"
    /\ \E i, j \in DOMAIN history :
           /\ i < j
           /\ history[j].dup
           /\ history[i].key = history[j].key
           /\ history[i].file # history[j].file
           /\ history[i].out # history[j].out

\* C3: the data lines of the output are the non-duplicate rows in reading order,
\* and rows are read file by file in sorted-filename order.
C3_OrderPreserved ==
    /\ outFile.exists =>
           Tail(outFile.lines) = [i \in DOMAIN Survivors |-> writerow(Survivors[i].out)]
    /\ \A i, j \in DOMAIN history : i < j => history[i].file <= history[j].file
    /\ \A i, j \in DOMAIN files : i < j => files[i] < files[j]

C3_Witness ==
    /\ pc = "done"
    /\ \E i, j \in DOMAIN Survivors :
           /\ Survivors[i].file < Survivors[j].file
           /\ Survivors[i].out # Survivors[j].out

\* C4: the merge of a merge's output, as sole input, writes that output again,
\* skips no row and writes every row it reads.
C4_Idempotent ==
    (run = 2 /\ pc = "done") =>
        /\ outFile = prevOut
        /\ totals.duplicates_skipped = 0
        /\ totals.rows_out = totals.rows_in

\* the directory holds no file with a .csv extension
NoCsvFile == \A n \in DOMAIN entry : ~(entry[n].isfile /\ entry[n].csv)

\* every CSV file of the directory yields no header
NoHeaderAnywhere ==
    \A n \in DOMAIN entry : (entry[n].isfile /\ entry[n].csv) => read_header(n) = <<>>

\* C5: with no CSV file in the directory, or with no CSV file that has a header,
\* combine_csvs ends in a fatal failure, and at that point neither the output
\* file nor its directory has been created.
C5_FatalBeforeOutput ==
    /\ Fatal => <<outDir, outFile>> = fs0
    /\ NoCsvFile => pc \in {"list", "fatal_no_csv"}
    /\ (~NoCsvFile /\ NoHeaderAnywhere) => pc \in {"list", "select", "fatal_all_empty"}
    /\ pc = "fatal_no_csv" => NoCsvFile
    /\ pc = "fatal_all_empty" => NoHeaderAnywhere

C5_Witness ==
    /\ pc = "fatal_all_empty"
    /\ \E n \in DOMAIN entry : IsCsvFile(n) /\ first_row(entry[n]) = Line(<<>>)
    /\ \E n \in DOMAIN entry : IsCsvFile(n) /\ first_row(entry[n]) = NoLine

\* C9: a file with no header is skipped in the per-file pass: the files whose rows
\* are read there are never files passed over, for want of a header, when the
\* canonical header was selected.
C9_HeaderlessFilesSkipped ==
    /\ pc = "rows" => read_header(files[fi]) # <<>>
    /\ \A i \in DOMAIN history : read_header(history[i].file) # <<>>

\* the index build_index_map gives a canonical column in a source header
MappedIndex(src_h, name) == build_index_map(src_h, <<name>>)[1]

\* C10: every written row has the canonical header's length; its cell for a
\* canonical column is the source cell, verbatim, at the column's mapped index when
\* the source header has the column and the source row reaches it, and '' otherwise;
\* the line written reads back as that row.
C10_WrittenRowIsMappedRow ==
    /\ \A i \in DOMAIN history :
           LET h == history[i] IN
           /\ Len(h.out) = Len(canonical_header)
           /\ \A c \in DOMAIN canonical_header :
                  h.out[c] =
                      IF /\ canonical_header[c] \in Range(h.src)
                         /\ MappedIndex(h.src, canonical_header[c]) <= Len(h.row)
                      THEN h.row[MappedIndex(h.src, canonical_header[c])]
                      ELSE EmptyStr
    /\ outFile.exists =>
           \A i \in DOMAIN Survivors :
               /\ i + 1 \in DOMAIN outFile.lines
               /\ parseLine(outFile.lines[i + 1], COMMA) = Survivors[i].out

C10_Witness ==
    /\ pc = "done"
    /\ \E i \in DOMAIN Survivors :
           LET h == Survivors[i] IN
           /\ Len(h.row) < Len(h.src)
           /\ \E c \in DOMAIN h.out : h.out[c] = <<"7", ".", "0">>
           /\ \E c \in DOMAIN h.out :
                  /\ canonical_header[c] \in Range(h.src)
                  /\ h.out[c] = EmptyStr

(***************************************************************************)
(* The pure functions, each called once on an argument of a bounded set.   *)
(***************************************************************************)
\* no merge is running
MergeIdle ==
    /\ run = 0
    /\ entry = <<>>
    /\ files = <<>>
    /\ fi = 0
    /\ canonical_header = <<>>
    /\ key_idx = <<>>
    /\ use_key = FALSE
    /\ src_header = <<>>
    /\ idx_map = <<>>
    /\ reader = <<>>
    /\ seen_keys = {}
    /\ seen_full_rows = {}
    /\ totals = ZeroTotals
    /\ outDir = FALSE
    /\ outFile = NoFile
    /\ fs0 = <<FALSE, NoFile>>
    /\ prevOut = NoFile
    /\ history = <<>>

(***************************************************************************)
(* _normalize_for_key on every cell of at most MaxStr characters           *)
(***************************************************************************)
NormChars == {"7", "0", ".", " ", "A", "a"}

InitNorm ==
    /\ MergeIdle
    /\ pc = "call"
    /\ arg \in SeqsUpTo(NormChars, MaxStr)
    /\ ret = <<>>

Normalize ==
    /\ pc = "call"
    /\ ret' = _normalize_for_key(arg)
    /\ pc' = "returned"
    /\ UNCHANGED <<mergeVarsButPc, arg>>

NextNorm == Normalize

SpecNorm == InitNorm /\ [][NextNorm]_vars

\* the cell without its leading and trailing whitespace
Trimmed(v) ==
    LET inner == {i \in DOMAIN v : v[i] \notin Whitespace}
    IN  IF inner = {} THEN <<>>
        ELSE SubSeq(v, CHOOSE i \in inner : \A j \in inner : i <= j,
                       CHOOSE i \in inner : \A j \in inner : j <= i)

\* only digits, at least one, and at most one decimal point
NumericPattern(t) ==
    /\ \A i \in DOMAIN t : t[i] \in Digits \cup {"."}
    /\ \E i \in DOMAIN t : t[i] \in Digits
    /\ Cardinality({i \in DOMAIN t : t[i] = "."}) <= 1

\* no digit after the decimal point is other than 0
NoFraction(t) == \A i, j \in DOMAIN t : (t[i] = "." /\ i < j) => t[j] = "0"

\* the digits before the decimal point, without leading zeros
IntegerDigits(t) ==
    LET int == {i \in DOMAIN t : \A j \in 1..i : t[j] # "."}
        sig == {i \in int : \E j \in 1..i : t[j] # "0"}
    IN  IF sig = {} THEN <<"0">>
        ELSE SubSeq(t, CHOOSE i \in sig : \A j \in sig : i <= j,
                       CHOOSE i \in int : \A j \in int : j <= i)

\* C7: the normalized cell is the trimmed cell's integer representation when the
\* trimmed cell is digits with at most one decimal point and has no fractional
\* part, and the trimmed cell lowercased otherwise; "7", "7.0" and " 7.00 " give
\* "7", and cells that differ in case give the same value.
C7_Normalization ==
    pc = "returned" =>
        /\ ret = IF NumericPattern(Trimmed(arg)) /\ NoFraction(Trimmed(arg))
                 THEN IntegerDigits(Trimmed(arg))
                 ELSE lower(Trimmed(arg))
        /\ arg \in {<<"7">>, <<"7", ".", "0">>, <<" ", "7", ".", "0", "0", " ">>} => ret = <<"7">>
        /\ arg \in {<<"A", "a", "A">>, <<"a", "a", "a">>} => ret = <<"a", "a", "a">>

C7_Witness ==
    /\ pc = "returned"
    /\ arg = <<" ", "7", ".", "0", "0", " ">>
    /\ ret = <<"7">>

(***************************************************************************)
(* build_index_map on every pair of headers of at most MaxHdr columns      *)
(***************************************************************************)
ColumnNames == {<<"a">>, <<"A">>, <<"b">>}

InitIdx ==
    /\ MergeIdle
    /\ pc = "call"
    /\ arg \in SeqsUpTo(ColumnNames, MaxHdr) \X SeqsUpTo(ColumnNames, MaxHdr)
    /\ ret = <<>>

BuildIndexMap ==
    /\ pc = "call"
    /\ ret' = build_index_map(arg[1], arg[2])
    /\ pc' = "returned"
    /\ UNCHANGED <<mergeVarsButPc, arg>>

NextIdx == BuildIndexMap

SpecIdx == InitIdx /\ [][NextIdx]_vars

Occurrences(header, name) == {i \in DOMAIN header : header[i] = name}

\* C6, as claimed: the entry for a canonical name is the index of the name's
\* first occurrence in the source header, or None when the name is absent.
C6_FirstOccurrenceWins ==
    pc = "returned" =>
        /\ Len(ret) = Len(arg[2])
        /\ \A k \in DOMAIN arg[2] :
               LET occ == Occurrences(arg[1], arg[2][k]) IN
               IF occ = {} THEN ret[k] = None
               ELSE ret[k] \in occ /\ \A i \in occ : ret[k] <= i

\* C6, amended: the entry for a canonical name is the index of the name's last
\* occurrence in the source header (exact, case-sensitive match), or None when the
\* name is absent.
C6_LastOccurrenceWins ==
    pc = "returned" =>
        /\ Len(ret) = Len(arg[2])
        /\ \A k \in DOMAIN arg[2] :
               LET occ == Occurrences(arg[1], arg[2][k]) IN
               IF occ = {} THEN ret[k] = None
               ELSE ret[k] \in occ /\ \A i \in occ : i <= ret[k]

C6_Witness ==
    /\ pc = "returned"
    /\ arg = <<(<<<<"a">>, <<"b">>, <<"a">>>>), (<<<<"a">>, <<"A">>, <<"b">>>>)>>
    /\ ret = <<3, None, 2>>

(***************************************************************************)
(* remove_unnamed_columns. A file is its first line (NoLine, or Line(header))*)
(* and its data rows, as the file's own dialect reads and writes them.     *)
(***************************************************************************)
UNNAMED == <<"U", "n", "n", "a", "m", "e", "d">>

KeepIdxNoStrip(header) ==
    SelectSeq([i \in DOMAIN header |-> i], LAMBDA i : ~startswith(header[i], UNNAMED))

\* keep_idx: the columns whose stripped header does not start with 'Unnamed'
keep_idx(header) ==
    SelectSeq([i \in DOMAIN header |-> i], LAMBDA i : ~startswith(strip(header[i]), UNNAMED))

\* row + [''] * (len(header) - len(row)) for a short row
pad(row, header) ==
    IF Len(row) < Len(header)
    THEN row \o [i \in 1..(Len(header) - Len(row)) |-> EmptyStr]
    ELSE row

\* the value returned and the file left at csv_path
remove_unnamed_columns(f) ==
    IF f.first = NoLine THEN [removed |-> 0, file |-> f]
    ELSE LET header == f.first[1]
             keep == keep_idx(header)
             removed == Len(header) - Len(keep)
         IN  IF removed = 0 THEN [removed |-> 0, file |-> f]
             ELSE [removed |-> removed,
                   file |-> [first |-> Line([k \in DOMAIN keep |-> header[keep[k]]]),
                             rows |-> [r \in DOMAIN f.rows |->
                                          [k \in DOMAIN keep |-> pad(f.rows[r], header)[keep[k]]]]]]

(***************************************************************************)
(* remove_unnamed_columns on every file of at most MaxStripCols columns    *)
(* and MaxStripRows data rows                                              *)
(***************************************************************************)
StripNames ==
    {<<"i", "d">>,
     UNNAMED \o <<":", " ", "0">>,
     <<" ">> \o UNNAMED,
     <<"u", "n", "n", "a", "m", "e", "d">>,
     <<>>}

\* the data row of n cells "1", "2", ...: shorter than, as long as, or longer
\* than the header
StripRow(n) == [i \in 1..n |-> <<digitChar(i)>>]

StripFiles ==
    {[first |-> NoLine, rows |-> <<>>]}
    \cup {[first |-> Line(h), rows |-> rs] :
              h \in SeqsUpTo(StripNames, MaxStripCols),
              rs \in SeqsUpTo({StripRow(n) : n \in 0..(MaxStripCols + 1)}, MaxStripRows)}

InitStrip ==
    /\ MergeIdle
    /\ pc = "call"
    /\ arg \in StripFiles
    /\ ret = <<>>

RemoveUnnamedColumns ==
    /\ pc = "call"
    /\ ret' = remove_unnamed_columns(arg)
    /\ pc' = "returned"
    /\ UNCHANGED <<mergeVarsButPc, arg>>

NextStrip == RemoveUnnamedColumns

SpecStrip == InitStrip /\ [][NextStrip]_vars

\* the file after the columns at the positions gone are removed: every other
\* column of the header keeps its place among those that stay, and so does its
\* cell in every data row, '' standing for a cell the row does not reach
Without(f, gone) ==
    LET header == f.first[1]
        place(i) == i - Cardinality({j \in gone : j < i})
        stay == DOMAIN header \ gone
        at(k) == CHOOSE i \in stay : place(i) = k
    IN  [first |-> Line([k \in 1..Cardinality(stay) |-> header[at(k)]]),
         rows |-> [r \in DOMAIN f.rows |->
                      [k \in 1..Cardinality(stay) |->
                          IF at(k) <= Len(f.rows[r]) THEN f.rows[r][at(k)] ELSE EmptyStr]]]

StripOutcome(f, gone) ==
    IF gone = {} THEN [removed |-> 0, file |-> f]
    ELSE [removed |-> Cardinality(gone), file |-> Without(f, gone)]

\* C8, as claimed: the columns removed are exactly those whose header starts with
\* "Unnamed"; the others stay, in order, in the header and in every data row; the
\* number of removed columns is returned; with no such header, or an empty file, 0
\* is returned and the file is unchanged.
C8_RemovesPrefixedColumns ==
    pc = "returned" =>
        IF arg.first = NoLine THEN ret = [removed |-> 0, file |-> arg]
        ELSE ret = StripOutcome(arg, {i \in DOMAIN arg.first[1] :
                                          startswith(arg.first[1][i], UNNAMED)})

\* C8, amended: the columns removed are exactly those whose header, with its
\* surrounding whitespace trimmed, starts with "Unnamed"; the others stay, in
\* order, in the header and in every data row (short rows padded with '', cells
\* beyond the header's width dropped); the number of removed columns is returned;
\* with no such header, or an empty file, 0 is returned and the file is unchanged.
C8_RemovesTrimmedPrefixedColumns ==
    pc = "returned" =>
        IF arg.first = NoLine THEN ret = [removed |-> 0, file |-> arg]
        ELSE ret = StripOutcome(arg, {i \in DOMAIN arg.first[1] :
                                          startswith(Trimmed(arg.first[1][i]), UNNAMED)})

C8_Witness ==
    /\ pc = "returned"
    /\ arg.first = Line(<<(<<"i", "d">>), (<<" ">> \o UNNAMED), (<<"i", "d">>)>>)
    /\ arg.rows = <<StripRow(1), StripRow(4)>>
    /\ ret.removed = 1
    /\ ret.file.rows = <<(<<(<<"1">>), EmptyStr>>), (<<(<<"1">>), (<<"3">>)>>)>>

====
